---- MODULE Spec2Model ----
\* Model of the Aries Virgo lookup service (src/main.go): the HTTP handlers,
\* the single backend call made by getAPIResponse, and the reshaping of one
\* solr document into the aries response.
\*
\* Strings are sequences of pieces.  Text that passes through url.QueryEscape
\* is kept one character per piece so that the escaping is computed character
\* by character; fixed text that is only concatenated is kept as one piece.
EXTENDS Integers, Sequences, FiniteSets, TLC

(***************************************************************************)
(* Bounds of the model.                                                    *)
(***************************************************************************)
\* number of request slots (requests in flight at once) in SpecConc
NumReq == 2
\* longest alternate_id_facet list of a document
MaxAlt == 2
\* longest barcode_facet list of a document
MaxBarcodes == 1
\* longest docs list of a backend response
MaxDocs == 2
\* largest numFound a backend response reports (the smallest is -1)
MaxFound == 2

(***************************************************************************)
(* Configuration: the flag defaults of main().                             *)
(***************************************************************************)
version == <<"1.0.0">>
solrURL == <<"http://solr.lib.virginia.edu:8082/solr">>
solrCore == <<"core">>
virgoURL == <<"https://search.lib.virginia.edu">>

(***************************************************************************)
(* Input domains.                                                          *)
(***************************************************************************)
Req == 1..NumReq

\* identifiers: one plain, one holding a character QueryEscape rewrites
Ids == { <<"u", "1">>, <<"X", " ">> }

\* values of the alternate-id facet; the first is also a document id
AltVals == { <<"u", "1">>, <<"X", "0">> }
\* values of the barcode facet; it is also an alternate-id value
BarcodeVals == { <<"X", "0">> }

RECURSIVE SeqsUpTo(_, _)
SeqsUpTo(S, n) ==
    IF n = 0 THEN { <<>> }
    ELSE LET shorter == SeqsUpTo(S, n - 1)
         IN  shorter \cup { Append(s, x) : s \in { t \in shorter : Len(t) = n - 1 }, x \in S }

\* A Go []string: isNil tells the nil slice from the empty, non-nil one
\* (json.Unmarshal leaves nil for a missing or null field, and makes an
\* empty non-nil slice for []).
NilSlice == [isNil |-> TRUE, vals |-> <<>>]
Slice(vs) == [isNil |-> FALSE, vals |-> vs]

ShadowedChoices ==
    { NilSlice, Slice(<<>>), Slice(<< <<"VISIBLE">> >>), Slice(<< <<"SHADOWED">> >>),
      Slice(<< <<"SHADOWED">>, <<"VISIBLE">> >>) }

FeatureChoices ==
    { NilSlice, Slice(<< <<"iiif">> >>), Slice(<< <<"pda">>, <<"iiif">> >>), Slice(<< <<"pda">> >>) }

MarcChoices == { <<>>, <<"<record/>">> }

\* solrDoc
solrDoc ==
    [ ID : Ids,
      ShadowedLocationFacet : ShadowedChoices,
      MarcDisplay : MarcChoices,
      AlternateIDFacet : { IF s = <<>> THEN NilSlice ELSE Slice(s) : s \in SeqsUpTo(AltVals, MaxAlt) },
      BarcodeFacet : { IF s = <<>> THEN NilSlice ELSE Slice(s) : s \in SeqsUpTo(BarcodeVals, MaxBarcodes) },
      FeatureFacet : FeatureChoices ]

\* the document that fills the places after the first of a docs list
FillerDoc ==
    [ ID |-> <<"X", " ">>, ShadowedLocationFacet |-> NilSlice, MarcDisplay |-> <<>>,
      AlternateIDFacet |-> NilSlice, BarcodeFacet |-> NilSlice, FeatureFacet |-> NilSlice ]

DocLists ==
    { <<>> } \cup
    { <<d>> \o tail : d \in solrDoc, tail \in SeqsUpTo({FillerDoc}, MaxDocs - 1) }

\* solrFullResponse, with the fields the handler reads
solrFullResponse ==
    [ ResponseHeader : [ Status : {0, 1} ],
      Response : [ NumFound : (-1)..MaxFound, Docs : DocLists ] ]

\* the zero value json.Unmarshal starts from
ZeroResponse ==
    [ ResponseHeader |-> [ Status |-> 0 ],
      Response |-> [ NumFound |-> 0, Docs |-> <<>> ] ]

\* A body the backend sends: wellformed tells whether it is JSON of the
\* solrFullResponse shape, value is what json.Unmarshal decodes it to.
BadBody == [ wellformed |-> FALSE, value |-> ZeroResponse ]
GoodBodies == [ wellformed : {TRUE}, value : solrFullResponse ]

\* What comes back from client.Get: a transport failure (no connection, or
\* the 10 second timeout), or an HTTP reply with a status code and a body.
NoReply == [ kind |-> "none", statusCode |-> 0, body |-> BadBody ]
TransportFailures ==
    { [ kind |-> k, statusCode |-> 0, body |-> BadBody ] : k \in {"connfail", "timeout"} }
\* bodies sent along with a non-200 status: garbage, or a well-formed
\* answer reporting one hit, or one reporting several
ErrorBodies ==
    { BadBody } \cup
    { b \in GoodBodies :
        /\ b.value.ResponseHeader.Status = 0
        /\ b.value.Response.NumFound \in {1, 2}
        /\ b.value.Response.Docs = << FillerDoc >> }
Replies ==
    TransportFailures
    \cup [ kind : {"http"}, statusCode : {500}, body : ErrorBodies ]
    \cup [ kind : {"http"}, statusCode : {200}, body : GoodBodies \cup {BadBody} ]

\* the replies used when several requests are in flight: every kind of
\* failure, and the hit counts zero, one (with and without a document) and
\* two
ConcBodies ==
    { BadBody } \cup
    { b \in [ wellformed : {TRUE},
              value : [ ResponseHeader : [ Status : {0, 1} ],
                        Response : [ NumFound : {0, 1, 2}, Docs : { <<>>, << FillerDoc >> } ] ] ] :
        \/ b.value.ResponseHeader.Status = 0 /\ b.value.Response.Docs # <<>>
        \/ b.value.ResponseHeader.Status = 0 /\ b.value.Response.NumFound = 1
        \/ b.value.ResponseHeader.Status = 1 /\ b.value.Response.NumFound = 2
                                             /\ b.value.Response.Docs # <<>> }
ConcReplies ==
    TransportFailures
    \cup [ kind : {"http"}, statusCode : {500}, body : { BadBody } ]
    \cup [ kind : {"http"}, statusCode : {200}, body : ConcBodies ]

VARIABLES pc, route, passedID, urlStr, reply, apiRes, sent, resp

vars == << pc, route, passedID, urlStr, reply, apiRes, sent, resp >>

(***************************************************************************)
(* url.QueryEscape: letters, digits and - _ . ~ stay, a space becomes +,   *)
(* every other byte becomes %XX.                                           *)
(***************************************************************************)
Unreserved ==
    { "a", "b", "c", "d", "e", "f", "i", "l", "n", "o", "r", "t", "u",
      "X", "0", "1", "-", "_", ".", "~" }

EscapeChar(c) ==
    IF c \in Unreserved THEN << c >>
    ELSE IF c = " " THEN << "+" >>
    ELSE IF c = "\"" THEN << "%", "2", "2" >>
    ELSE IF c = ":" THEN << "%", "3", "A" >>
    ELSE << "%", "x", "x" >>   \* a byte outside the alphabet of the model

RECURSIVE QueryEscape(_)
QueryEscape(s) ==
    IF s = <<>> THEN <<>> ELSE EscapeChar(Head(s)) \o QueryEscape(Tail(s))

\* fmt.Sprintf("<field>:\"%s\"", id)
FieldClause(field, id) == field \o << ":", "\"" >> \o id \o << "\"" >>

IdField == << "i", "d" >>
AltField == << "a", "l", "t", "e", "r", "n", "a", "t", "e", "_", "i", "d", "_", "f", "a", "c", "e", "t" >>
BarcodeField == << "b", "a", "r", "c", "o", "d", "e", "_", "f", "a", "c", "e", "t" >>

\* the query URL of a lookup: three clauses, each escaped, joined by "+"
LookupURL(id) ==
    solrURL \o << "/" >> \o solrCore \o << "/select?q=" >>
    \o QueryEscape(FieldClause(IdField, id)) \o << "+" >>
    \o QueryEscape(FieldClause(AltField, id)) \o << "+" >>
    \o QueryEscape(FieldClause(BarcodeField, id))
    \o << "&wt=json&indent=true" >>
    \o << "&fl=id,shadowed_location_facet,marc_display,alternate_id_facet,barcode_facet,feature_facet" >>

\* the query URL of the health check
PingURL == solrURL \o << "/" >> \o solrCore \o << "/select?q=*:*&wt=json&rows=0" >>

(***************************************************************************)
(* getAPIResponse: one GET with a 10 second timeout.  gets lists the URLs  *)
(* client.Get was called with.                                             *)
(***************************************************************************)
getAPIResponseRetry(url, rp) ==
    IF rp.kind # "http"
    THEN [ respStr |-> BadBody, err |-> TRUE, errText |-> << "Get ", rp.kind >>,
           gets |-> << url, url >> ]
    ELSE IF rp.statusCode # 200
    THEN [ respStr |-> BadBody, err |-> TRUE, errText |-> << "<backend body>" >>,
           gets |-> << url, url >> ]
    ELSE [ respStr |-> rp.body, err |-> FALSE, errText |-> <<>>, gets |-> << url >> ]

getAPIResponse(url, rp) ==
    IF rp.kind # "http"
    THEN [ respStr |-> BadBody, err |-> TRUE, errText |-> << "Get ", rp.kind >>,
           gets |-> << url >> ]
    ELSE IF rp.statusCode # 200
    THEN [ respStr |-> BadBody, err |-> TRUE, errText |-> << "<backend body>" >>,
           gets |-> << url >> ]
    ELSE [ respStr |-> rp.body, err |-> FALSE, errText |-> <<>>, gets |-> << url >> ]

NoResult == [ respStr |-> BadBody, err |-> FALSE, errText |-> <<>> ]

\* json.Unmarshal([]byte(respStr), &resp)
Unmarshal(respStr) ==
    [ err |-> ~respStr.wellformed,
      resp |-> IF respStr.wellformed THEN respStr.value ELSE ZeroResponse ]

(***************************************************************************)
(* The responses a handler writes.                                         *)
(***************************************************************************)
\* the zero value of the aries struct
EmptyAries ==
    [ Identifiers |-> <<>>, ServiceURL |-> <<>>, AccessURL |-> <<>>, MetadataURL |-> <<>> ]

NoResponse == [ code |-> 0, kind |-> "none", body |-> <<>>, out |-> EmptyAries ]
\* c.String(code, text)
StringResponse(code, text) == [ code |-> code, kind |-> "text", body |-> text, out |-> EmptyAries ]
\* c.JSON(code, out)
JSONResponse(code, out) == [ code |-> code, kind |-> "json", body |-> <<>>, out |-> out ]
\* a handler that panics: the Recovery middleware of gin.Default() answers 500
PanicResponse == [ code |-> 500, kind |-> "panic", body |-> <<>>, out |-> EmptyAries ]

hasValue(values, tgtVal) == \E i \in 1..Len(values) : values[i] = tgtVal

(***************************************************************************)
(* The aries response built from the one matched document.                 *)
(***************************************************************************)
IdentifiersBarcodesFirst(doc) ==
    << doc.ID >> \o doc.BarcodeFacet.vals \o doc.AlternateIDFacet.vals

\* out.Identifiers: the id, then the alternate ids, then the barcodes
Identifiers(doc) ==
    << doc.ID >> \o doc.AlternateIDFacet.vals \o doc.BarcodeFacet.vals

\* the entry for the solr index, always there
IndexServiceURL(doc) ==
    [ URL |-> solrURL \o << "/" >> \o solrCore \o << "/select?q=" >>
              \o QueryEscape(FieldClause(IdField, doc.ID)),
      Protocol |-> "virgo-index" ]

\* the entry for the IIIF manifest
ManifestServiceURL(doc) ==
    [ URL |-> virgoURL \o << "/catalog/" >> \o doc.ID \o << "/iiif/manifest.json" >>,
      Protocol |-> "iiif-presentation" ]

ServiceURLsManifestFirst(doc) ==
    IF hasValue(doc.FeatureFacet.vals, << "iiif" >>)
    THEN << ManifestServiceURL(doc), IndexServiceURL(doc) >>
    ELSE << IndexServiceURL(doc) >>

ServiceURLsShadowAware(doc) ==
    IF ~doc.ShadowedLocationFacet.isNil /\ ~hasValue(doc.ShadowedLocationFacet.vals, << "VISIBLE" >>)
    THEN <<>>
    ELSE << IndexServiceURL(doc) >>
         \o (IF hasValue(doc.FeatureFacet.vals, << "iiif" >>)
             THEN << ManifestServiceURL(doc) >> ELSE <<>>)

\* out.ServiceURL
ServiceURLs(doc) ==
    << IndexServiceURL(doc) >>
    \o (IF hasValue(doc.FeatureFacet.vals, << "iiif" >>)
        THEN << ManifestServiceURL(doc) >> ELSE <<>>)

\* the test that guards the access and metadata URLs
IsVisible(doc) ==
    doc.ShadowedLocationFacet.isNil \/ hasValue(doc.ShadowedLocationFacet.vals, << "VISIBLE" >>)

\* out.AccessURL
AccessURLs(doc) ==
    IF IsVisible(doc) THEN << virgoURL \o << "/catalog/" >> \o doc.ID >> ELSE <<>>

\* out.MetadataURL
MetadataURLs(doc) ==
    IF IsVisible(doc) /\ doc.MarcDisplay # <<>>
    THEN << virgoURL \o << "/catalog/" >> \o doc.ID \o << ".xml" >> >>
    ELSE <<>>

\* var out aries, filled from doc
BuildAries(doc) ==
    [ Identifiers |-> Identifiers(doc),
      ServiceURL |-> ServiceURLs(doc),
      AccessURL |-> AccessURLs(doc),
      MetadataURL |-> MetadataURLs(doc) ]

NotFoundText(id) == id \o << " not found" >>
TooManyText(id, url) == id \o << " has too many hits. Query: " >> \o url

\* Docs[0] of an empty list panics
FirstDocResponse(docs) ==
    IF Len(docs) = 0 THEN PanicResponse ELSE JSONResponse(200, BuildAries(docs[1]))

HitCountResponseNoZeroCheck(id, url, r) ==
    IF r.NumFound > 1 THEN StringResponse(400, TooManyText(id, url))
    ELSE FirstDocResponse(r.Docs)

HitCountResponseManyAsFirst(id, url, r) ==
    IF r.NumFound = 0 THEN StringResponse(404, NotFoundText(id))
    ELSE FirstDocResponse(r.Docs)

\* ariesLookup from the hit count on
HitCountResponse(id, url, r) ==
    IF r.NumFound = 0 THEN StringResponse(404, NotFoundText(id))
    ELSE IF r.NumFound > 1 THEN StringResponse(400, TooManyText(id, url))
    ELSE FirstDocResponse(r.Docs)

LookupResponseCountFirst(id, url, res) ==
    IF res.err THEN StringResponse(404, res.errText)
    ELSE LET u == Unmarshal(res.respStr)
         IN  IF u.err THEN StringResponse(404, NotFoundText(id))
             ELSE IF u.resp.Response.NumFound > 1
             THEN StringResponse(400, TooManyText(id, url))
             ELSE IF u.resp.ResponseHeader.Status # 0
             THEN StringResponse(404, NotFoundText(id))
             ELSE HitCountResponse(id, url, u.resp.Response)

\* ariesLookup after getAPIResponse has returned
LookupResponse(id, url, res) ==
    IF res.err THEN StringResponse(404, res.errText)
    ELSE LET u == Unmarshal(res.respStr)
         IN  IF u.err THEN StringResponse(404, NotFoundText(id))
             ELSE IF u.resp.ResponseHeader.Status # 0
             THEN StringResponse(404, NotFoundText(id))
             ELSE HitCountResponse(id, url, u.resp.Response)

(***************************************************************************)
(* State.  A slot is one request being served; slots run concurrently.     *)
(*   pc        where the handler of the slot stands                        *)
(*   route     which handler serves the slot                               *)
(*   passedID  c.Param("id") of a lookup                                   *)
(*   urlStr    the query URL of a lookup                                   *)
(*   reply     what the backend answered to the slot's GET                 *)
(*   apiRes    what getAPIResponse returned                                *)
(*   sent      the URLs the slot has sent a GET to                         *)
(*   resp      the response written to the client                          *)
(***************************************************************************)
Init ==
    /\ pc = [ r \in Req |-> "idle" ]
    /\ route = [ r \in Req |-> "none" ]
    /\ passedID = [ r \in Req |-> <<>> ]
    /\ urlStr = [ r \in Req |-> <<>> ]
    /\ reply = [ r \in Req |-> NoReply ]
    /\ apiRes = [ r \in Req |-> NoResult ]
    /\ sent = [ r \in Req |-> <<>> ]
    /\ resp = [ r \in Req |-> NoResponse ]

\* GET /favicon.ico: nothing is written, gin answers 200 with no body
favHandler(r) ==
    /\ pc[r] = "idle"
    /\ pc' = [ pc EXCEPT ![r] = "done" ]
    /\ route' = [ route EXCEPT ![r] = "favicon" ]
    /\ resp' = [ resp EXCEPT ![r] = [ code |-> 200, kind |-> "empty", body |-> <<>>, out |-> EmptyAries ] ]
    /\ UNCHANGED << passedID, urlStr, reply, apiRes, sent >>

\* GET /version
versionHandler(r) ==
    /\ pc[r] = "idle"
    /\ pc' = [ pc EXCEPT ![r] = "done" ]
    /\ route' = [ route EXCEPT ![r] = "version" ]
    /\ resp' = [ resp EXCEPT ![r] = StringResponse(200, << "Aries Virgo version " >> \o version) ]
    /\ UNCHANGED << passedID, urlStr, reply, apiRes, sent >>

\* GET /api/aries
ariesPing(r) ==
    /\ pc[r] = "idle"
    /\ pc' = [ pc EXCEPT ![r] = "done" ]
    /\ route' = [ route EXCEPT ![r] = "ping" ]
    /\ resp' = [ resp EXCEPT ![r] = StringResponse(200, << "Virgo Aries API" >>) ]
    /\ UNCHANGED << passedID, urlStr, reply, apiRes, sent >>

\* GET /healthcheck: one GET to the backend, always answered 200; the
\* backend's answer is any one of replies
healthCheckHandler(r, replies) ==
    /\ pc[r] = "idle"
    /\ \E rp \in replies :
        LET res == getAPIResponse(PingURL, rp)
        IN  /\ sent' = [ sent EXCEPT ![r] = @ \o res.gets ]
            /\ resp' = [ resp EXCEPT ![r] =
                   [ code |-> 200, kind |-> "map",
                     body |-> << "AriesVirgo=true",
                                 IF res.err THEN "Virgo=false" ELSE "Virgo=true" >>,
                     out |-> EmptyAries ] ]
    /\ pc' = [ pc EXCEPT ![r] = "done" ]
    /\ route' = [ route EXCEPT ![r] = "healthcheck" ]
    /\ UNCHANGED << passedID, urlStr, reply, apiRes >>

\* GET /api/aries/:id, up to the query URL
ariesLookupBegin(r, id) ==
    /\ pc[r] = "idle"
    /\ pc' = [ pc EXCEPT ![r] = "built" ]
    /\ route' = [ route EXCEPT ![r] = "lookup" ]
    /\ passedID' = [ passedID EXCEPT ![r] = id ]
    /\ urlStr' = [ urlStr EXCEPT ![r] = LookupURL(id) ]
    /\ UNCHANGED << reply, apiRes, sent, resp >>

\* respStr, err := getAPIResponse(urlStr): the handler blocks until the
\* backend has answered, with any one of replies
ariesLookupCall(r, replies) ==
    /\ pc[r] = "built"
    /\ \E rp \in replies :
        LET res == getAPIResponse(urlStr[r], rp)
        IN  /\ sent' = [ sent EXCEPT ![r] = @ \o res.gets ]
            /\ apiRes' = [ apiRes EXCEPT ![r] =
                   [ respStr |-> res.respStr, err |-> res.err, errText |-> res.errText ] ]
            /\ reply' = [ reply EXCEPT ![r] = rp ]
    /\ pc' = [ pc EXCEPT ![r] = "called" ]
    /\ UNCHANGED << route, passedID, urlStr, resp >>

\* the rest of ariesLookup: the response is written
ariesLookupFinish(r) ==
    /\ pc[r] = "called"
    /\ resp' = [ resp EXCEPT ![r] = LookupResponse(passedID[r], urlStr[r], apiRes[r]) ]
    /\ pc' = [ pc EXCEPT ![r] = "done" ]
    /\ UNCHANGED << route, passedID, urlStr, reply, apiRes, sent >>

\* the response has gone out: everything built for the request is dropped
\* and the server takes the next request
Serve(r) ==
    /\ pc[r] = "done"
    /\ pc' = [ pc EXCEPT ![r] = "idle" ]
    /\ route' = [ route EXCEPT ![r] = "none" ]
    /\ passedID' = [ passedID EXCEPT ![r] = <<>> ]
    /\ urlStr' = [ urlStr EXCEPT ![r] = <<>> ]
    /\ reply' = [ reply EXCEPT ![r] = NoReply ]
    /\ apiRes' = [ apiRes EXCEPT ![r] = NoResult ]
    /\ sent' = [ sent EXCEPT ![r] = <<>> ]
    /\ resp' = [ resp EXCEPT ![r] = NoResponse ]

\* one request at a time, every backend reply of the model
Next ==
    \E r \in {1} :
        \/ favHandler(r)
        \/ versionHandler(r)
        \/ ariesPing(r)
        \/ healthCheckHandler(r, Replies)
        \/ \E id \in Ids : ariesLookupBegin(r, id)
        \/ ariesLookupCall(r, Replies)
        \/ ariesLookupFinish(r)
        \/ Serve(r)

Spec == Init /\ [][Next]_vars

\* NumReq requests in flight at once
NextConc ==
    \E r \in Req :
        \/ favHandler(r)
        \/ versionHandler(r)
        \/ ariesPing(r)
        \/ healthCheckHandler(r, ConcReplies)
        \/ \E id \in Ids : ariesLookupBegin(r, id)
        \/ ariesLookupCall(r, ConcReplies)
        \/ ariesLookupFinish(r)
        \/ Serve(r)

SpecConc == Init /\ [][NextConc]_vars

(***************************************************************************)
(* Vocabulary of the properties.                                           *)
(***************************************************************************)
\* slot r holds a lookup whose response has been written
LookupDone(r) == pc[r] = "done" /\ route[r] = "lookup"
\* the backend answered 200 with a body that parses
Parsed(r) == reply[r].kind = "http" /\ reply[r].statusCode = 200 /\ reply[r].body.wellformed
\* ... and its response-status is 0
Status0(r) == Parsed(r) /\ reply[r].body.value.ResponseHeader.Status = 0
Hits(r) == reply[r].body.value.Response.NumFound
DocsOf(r) == reply[r].body.value.Response.Docs
\* the lookup was answered 200 with a result built from DocsOf(r)[1]
Succeeded(r) == LookupDone(r) /\ resp[r].code = 200
NoResultWritten(r) ==
    /\ resp[r].kind = "text"
    /\ resp[r].out.Identifiers = <<>>
    /\ resp[r].out.ServiceURL = <<>>
    /\ resp[r].out.AccessURL = <<>>
    /\ resp[r].out.MetadataURL = <<>>
Contains(vals, v) == \E i \in 1..Len(vals) : vals[i] = v

\* C1: a lookup whose backend response parses with response-status 0 and
\* reports zero hits is answered 404 NotFound, and no result is produced.
C1_ZeroHitsNotFound ==
    \A r \in Req :
        (LookupDone(r) /\ Status0(r) /\ Hits(r) = 0)
            => (resp[r].code = 404 /\ NoResultWritten(r))

\* a zero-hit answer that nevertheless carries a document has been answered
C1_Witness ==
    \E r \in Req : LookupDone(r) /\ Status0(r) /\ Hits(r) = 0 /\ Len(DocsOf(r)) > 0

\* C2: a lookup whose backend response parses with response-status 0 and
\* reports more than one hit is answered 400 Ambiguous, never 404, and no
\* identifiers, service URLs, access URLs or metadata URLs are written.
C2_ManyHitsAmbiguous ==
    \A r \in Req :
        (LookupDone(r) /\ Status0(r) /\ Hits(r) > 1)
            => (resp[r].code = 400 /\ NoResultWritten(r))

\* a several-hit answer whose first document would give every kind of URL
C2_Witness ==
    \E r \in Req :
        /\ LookupDone(r) /\ Status0(r) /\ Hits(r) > 1
        /\ Len(DocsOf(r)) > 0
        /\ DocsOf(r)[1].ShadowedLocationFacet.isNil
        /\ DocsOf(r)[1].MarcDisplay # <<>>

\* C3: every lookup whose backend response parses with response-status 0
\* and whose hit count is neither zero nor greater than one is answered 200
\* with a result, whatever the length of the docs list and the sign of the
\* hit count; so every lookup ends in 200, 404 or 400.
C3_OtherwiseOneDocument ==
    \A r \in Req :
        /\ (LookupDone(r) /\ Status0(r) /\ Hits(r) # 0 /\ ~(Hits(r) > 1))
              => (resp[r].code = 200 /\ resp[r].kind = "json"
                  /\ resp[r].out.Identifiers # <<>>)
        /\ LookupDone(r) => resp[r].code \in {200, 404, 400}

\* C4: in every successful result the identifiers are the document id, then
\* the alternate ids in order, then the barcodes in order, duplicates kept;
\* the list is not empty and starts with the document id.
C4_IdentifiersConcatenated ==
    \A r \in Req :
        Succeeded(r) =>
            LET doc == DocsOf(r)[1]
                ids == resp[r].out.Identifiers
                na == Len(doc.AlternateIDFacet.vals)
                nb == Len(doc.BarcodeFacet.vals)
            IN  /\ Len(ids) = 1 + na + nb
                /\ ids[1] = doc.ID
                /\ \A i \in 1..na : ids[1 + i] = doc.AlternateIDFacet.vals[i]
                /\ \A i \in 1..nb : ids[1 + na + i] = doc.BarcodeFacet.vals[i]

\* a result whose document has two different alternate ids, one of them
\* equal to the document id, and a barcode equal to the other
C4_Witness ==
    \E r \in Req :
        /\ Succeeded(r)
        /\ LET doc == DocsOf(r)[1]
           IN  /\ Len(doc.AlternateIDFacet.vals) = 2
               /\ doc.AlternateIDFacet.vals[1] # doc.AlternateIDFacet.vals[2]
               /\ Contains(doc.AlternateIDFacet.vals, doc.ID)
               /\ Len(doc.BarcodeFacet.vals) = 1
               /\ Contains(doc.AlternateIDFacet.vals, doc.BarcodeFacet.vals[1])

C6_MetadataURLIffVisibleAndMarc ==
    \A r \in Req :
        Succeeded(r) =>
            LET doc == DocsOf(r)[1]
                tags == doc.ShadowedLocationFacet
                visible == tags.isNil \/ tags.vals = <<>> \/ Contains(tags.vals, << "VISIBLE" >>)
            IN  /\ Len(resp[r].out.MetadataURL) = (IF visible /\ doc.MarcDisplay # <<>> THEN 1 ELSE 0)
                /\ resp[r].out.MetadataURL # <<>> => resp[r].out.AccessURL # <<>>

\* C7: for the matched document there are exactly two service URLs when the
\* feature facet contains iiif and exactly one otherwise, whatever the
\* visibility tags and the marc blob.
C7_ServiceURLCount ==
    \A r \in Req :
        Succeeded(r) =>
            Len(resp[r].out.ServiceURL) =
                (IF Contains(DocsOf(r)[1].FeatureFacet.vals, << "iiif" >>) THEN 2 ELSE 1)

\* a shadowed document with a marc blob and the iiif feature got both entries
C7_Witness ==
    \E r \in Req :
        /\ Succeeded(r)
        /\ DocsOf(r)[1].ShadowedLocationFacet = Slice(<< <<"SHADOWED">> >>)
        /\ DocsOf(r)[1].MarcDisplay # <<>>
        /\ Contains(DocsOf(r)[1].FeatureFacet.vals, << "iiif" >>)
        /\ Len(resp[r].out.ServiceURL) = 2

\* the solr query URL for a document id, written out: id:"<id>" escaped
ExpectedIndexURL(id) ==
    << "http://solr.lib.virginia.edu:8082/solr", "/", "core", "/select?q=" >>
    \o << "i", "d", "%", "3", "A", "%", "2", "2" >>
    \o QueryEscape(id)
    \o << "%", "2", "2" >>

ExpectedManifestURL(id) ==
    << "https://search.lib.virginia.edu", "/catalog/" >> \o id \o << "/iiif/manifest.json" >>

ServiceURLShape(r, firstLabel) ==
    LET doc == DocsOf(r)[1]
        svc == resp[r].out.ServiceURL
    IN  /\ Len(svc) >= 1
        /\ svc[1].URL = ExpectedIndexURL(doc.ID)
        /\ svc[1].Protocol = firstLabel
        /\ Len(svc) >= 2 =>
              /\ svc[2].URL = ExpectedManifestURL(doc.ID)
              /\ svc[2].Protocol = "iiif-presentation"
        /\ Len(svc) <= 2

\* C8 as stated: in every successful result the first service URL is the
\* solr query URL for the document id with the label "index-lookup"; a
\* second one, if any, is the manifest URL with the label
\* "iiif-presentation".
C8_FirstLabelIndexLookup ==
    \A r \in Req : Succeeded(r) => ServiceURLShape(r, "index-lookup")

\* C8 amended: in every successful result the first service URL is the solr
\* query URL for the document id with the label "virgo-index"; a second
\* one, if any, is the manifest URL with the label "iiif-presentation",
\* after the first.
C8_FirstLabelVirgoIndex ==
    \A r \in Req : Succeeded(r) => ServiceURLShape(r, "virgo-index")

\* a result with both entries for a document whose id is not the id asked
\* for and holds a character that QueryEscape rewrites
C8_Witness ==
    \E r \in Req :
        /\ Succeeded(r)
        /\ Len(resp[r].out.ServiceURL) = 2
        /\ DocsOf(r)[1].ID # passedID[r]
        /\ Contains(DocsOf(r)[1].ID, " ")

\* C9: a lookup whose backend call fails (no connection, timeout, non-200
\* status, unparseable body, non-zero response-status) is answered 404 with
\* no result, whatever hit count the body reports; 400 is only the answer
\* to a well-formed status-0 response with more than one hit.
C9_BackendFailuresAre404 ==
    \A r \in Req :
        LookupDone(r) =>
            /\ ~Status0(r) => (resp[r].code = 404 /\ NoResultWritten(r))
            /\ resp[r].code = 400 => (Status0(r) /\ Hits(r) > 1)

\* every kind of failure has been answered by now (one per slot, so under
\* Spec any one of them): here the one that the order of the checks decides
C9_Witness ==
    \E r \in Req :
        /\ LookupDone(r)
        /\ Parsed(r)
        /\ reply[r].body.value.ResponseHeader.Status # 0
        /\ Hits(r) > 1

\* C10, the state part: a lookup has sent at most one GET, to its own query
\* URL; once getAPIResponse has returned it has sent exactly one, and so it
\* has when the response is written; two lookups with the same id and the
\* same backend reply have the same response.
C10_State ==
    \A r \in Req :
        route[r] = "lookup" =>
            /\ Len(sent[r]) <= 1
            /\ pc[r] = "built" => sent[r] = <<>>
            /\ pc[r] \in {"called", "done"} => sent[r] = << LookupURL(passedID[r]) >>
            /\ resp[r] # NoResponse => Len(sent[r]) = 1
            /\ \A q \in Req :
                  (LookupDone(r) /\ LookupDone(q) /\ passedID[q] = passedID[r] /\ reply[q] = reply[r])
                      => resp[q] = resp[r]

\* C10, the step part: the step that writes a lookup's response sends no GET
\* and comes after the one GET; a step of one request changes nothing of
\* another request.
C10_Step ==
    \A r \in Req :
        /\ (route'[r] = "lookup" /\ resp'[r] # resp[r] /\ resp'[r] # NoResponse)
              => (Len(sent[r]) = 1 /\ sent'[r] = sent[r])
        /\ (pc'[r] # pc[r]) =>
              \A q \in Req \ {r} :
                  /\ pc'[q] = pc[q] /\ route'[q] = route[q] /\ passedID'[q] = passedID[q]
                  /\ urlStr'[q] = urlStr[q] /\ reply'[q] = reply[q] /\ apiRes'[q] = apiRes[q]
                  /\ sent'[q] = sent[q] /\ resp'[q] = resp[q]

\* C10: each lookup sends exactly one GET to the backend, before its
\* response is written, and never a second one, also after a failure and
\* also with other requests in flight.
C10_OneBackendCall == [] C10_State /\ [][C10_Step]_vars

\* two lookups in flight have both been answered, one after a timeout and
\* one with a result
C10_Witness ==
    \E r, q \in Req :
        /\ r # q
        /\ LookupDone(r) /\ reply[r].kind = "timeout" /\ resp[r].code = 404
        /\ LookupDone(q) /\ resp[q].code = 200
        /\ Len(sent[r]) = 1 /\ Len(sent[q]) = 1
====
